---- MODULE Spec2Model ----
(***************************************************************************)
(* Credential resolution of sp_api.base.credential_provider:               *)
(* CredentialProvider.__init__ and the three readers it chains             *)
(* (from_env, from_secrets, read_config), the nested Config record and     *)
(* its check_config, and the class-level cache shared by all instances.    *)
(*                                                                         *)
(* Python values are modelled as strings; None is the sentinel NoneVal.    *)
(* A dict is a function from key strings to values.  The process           *)
(* environment (os.environ), the credentials.yml document and the secrets  *)
(* manager response are outside the program: every construction finds the  *)
(* first two in some state, and every get_secret_value call returns either *)
(* a ClientError or a SecretString holding a JSON object.                  *)
(***************************************************************************)
EXTENDS Integers, Sequences, FiniteSets, TLC

VARIABLES
    cache,        \* CredentialProvider.cache (class attribute, process-wide)
    fetchCount,   \* number of client.get_secret_value calls made so far
    environ,      \* os.environ as found by the construction in progress
    configFile,   \* credentials.yml as found by the construction in progress
    account,      \* self.account
    credArg,      \* the credentials argument of __init__
    credentials,  \* self.credentials
    pc,           \* "idle", "load" (inside load_credentials), "returned", "raised";
                  \* "checked" after a Config was built and checked on its own
    idx,          \* position of load_credentials in self.read_credentials
    calls,        \* readers invoked by this construction, with their results
    touched,      \* resources this construction has consulted
    response,     \* what get_secret_value answered in this construction
    missing,      \* the last list returned by check_config
    raised        \* the exception that left __init__, if any

vars == <<cache, fetchCount, environ, configFile, account, credArg, credentials,
          pc, idx, calls, touched, response, missing, raised>>

-----------------------------------------------------------------------------
(* Bounds *)

MaxFetches == 2

-----------------------------------------------------------------------------
(* Python values and dicts *)

NoneVal == "<None>"

Falsy(v) == v \in {NoneVal, ""}

EmptyDict == [k \in {} |-> ""]

DictGet(d, k, default) == IF k \in DOMAIN d THEN d[k] ELSE default

Without(d, k) == [j \in DOMAIN d \ {k} |-> d[j]]

With(d, k, v) == [j \in DOMAIN d \cup {k} |-> IF j = k THEN v ELSE d[j]]

Merge(a, b) == [j \in DOMAIN a \cup DOMAIN b |-> IF j \in DOMAIN b THEN b[j] ELSE a[j]]

Full(keys, v) == [k \in keys |-> v]

NoException == [type |-> "none", message |-> <<>>]

-----------------------------------------------------------------------------
(* CredentialProvider.Config *)

\* the attributes Config.__init__ assigns, in assignment order
ConfigFields ==
    <<"refresh_token", "lwa_app_id", "lwa_client_secret",
      "aws_access_key", "aws_secret_key", "role_arn">>

FieldSet == {ConfigFields[i] : i \in 1..Len(ConfigFields)}

\* parameters of Config.__init__ without a default
ConfigPositional ==
    {"refresh_token", "lwa_app_id", "lwa_client_secret", "aws_access_key", "aws_secret_key"}

ConfigParams == FieldSet \cup {"use_instance_profile"}

\* Config(**kwargs): Python binds the keywords to the parameters first and
\* raises TypeError for an unknown keyword or a parameter without default
\* that got no value; use_instance_profile is accepted and not stored.
Config__init__(kwargs) ==
    IF ~(DOMAIN kwargs \subseteq ConfigParams) \/ ~(ConfigPositional \subseteq DOMAIN kwargs)
    THEN [exc |-> [type |-> "TypeError", message |-> <<>>], obj |-> EmptyDict]
    ELSE [exc |-> NoException,
          obj |-> [f \in FieldSet |->
                     IF f = "role_arn" THEN DictGet(kwargs, "role_arn", NoneVal)
                     ELSE kwargs[f]]]

check_config_old(cfg) ==
    SelectSeq(ConfigFields, LAMBDA k : Falsy(cfg[k]) /\ k # "refresh_token")

check_config(cfg) ==
    SelectSeq(ConfigFields, LAMBDA k : Falsy(cfg[k]) /\ k \notin {"refresh_token", "role_arn"})

MissingParameters(m) ==
    [type |-> "MissingCredentials",
     message |-> <<"The following configuration parameters are missing: ">> \o m]

-----------------------------------------------------------------------------
(* json.dumps / json.loads on a flat object of strings and None *)

JsonToken(v) == IF v = NoneVal THEN <<"null">> ELSE <<"string", v>>

JsonValue(t) == IF t = <<"null">> THEN NoneVal ELSE t[2]

\* keys is the dict's insertion order; the text is the list of members
json_dumps(keys, d) == [i \in 1..Len(keys) |-> <<keys[i], JsonToken(d[keys[i]])>>]

json_loads(text) ==
    [k \in {text[i][1] : i \in 1..Len(text)} |->
        JsonValue(text[CHOOSE i \in 1..Len(text) :
                         /\ text[i][1] = k
                         /\ \A j \in 1..Len(text) : text[j][1] = k => j <= i][2])]

-----------------------------------------------------------------------------
(* The class-level cache *)

CacheMaxsize == 10

CacheKey == "account_data"

NoCache == [k \in {} |-> <<>>]

\* cachetools.Cache.__setitem__: replace or insert, evicting while full
CacheSetItem(c, k, v) ==
    IF k \in DOMAIN c \/ Cardinality(DOMAIN c) < CacheMaxsize
    THEN [j \in DOMAIN c \cup {k} |-> IF j = k THEN v ELSE c[j]]
    ELSE LET e == CHOOSE j \in DOMAIN c : TRUE
         IN  [j \in (DOMAIN c \ {e}) \cup {k} |-> IF j = k THEN v ELSE c[j]]

-----------------------------------------------------------------------------
(* Environment variables *)

\* the environment variable each field is read from; the key order of
\* account_data in from_env and from_secrets
AccountDataKeys ==
    <<"refresh_token", "lwa_app_id", "lwa_client_secret",
      "aws_secret_key", "aws_access_key", "role_arn">>

EnvKey ==
    [refresh_token     |-> "SP_API_REFRESH_TOKEN",
     lwa_app_id        |-> "LWA_APP_ID",
     lwa_client_secret |-> "LWA_CLIENT_SECRET",
     aws_secret_key    |-> "SP_API_SECRET_KEY",
     aws_access_key    |-> "SP_API_ACCESS_KEY",
     role_arn          |-> "SP_API_ROLE_ARN"]

SecretIdVar == "SP_API_AWS_SECRET_ID"

ScopedName(key, acct) == key \o "_" \o acct

_get_env_unscoped_first(env, acct, key) ==
    DictGet(env, key, DictGet(env, ScopedName(key, acct), NoneVal))

_get_env(env, acct, key) ==
    DictGet(env, ScopedName(key, acct), DictGet(env, key, NoneVal))

-----------------------------------------------------------------------------
(* The readers.  Each operator is the body of one method: from the state   *)
(* the method sees to what it returns or raises and what it leaves behind. *)

Result(ret, exc, creds, c, t, m, fetched) ==
    [ret |-> ret, exc |-> exc, credentials |-> creds, cache |-> c,
     touched |-> t, missing |-> m, fetched |-> fetched]

BoolRet(b) == IF b THEN "True" ELSE "False"

\* account_data of from_env when the cache has no entry
EnvAccountData(env, acct) == [f \in FieldSet |-> _get_env(env, acct, EnvKey[f])]

from_env_ignoring_cache(c, env, acct, creds, m) ==
    LET cfg == Config__init__(EnvAccountData(env, acct)).obj
        mm  == check_config(cfg)
    IN  Result(BoolRet(Len(mm) = 0), NoException, cfg, c, {"environ"}, mm, FALSE)

from_env(c, env, acct, creds, m) ==
    LET hit == CacheKey \in DOMAIN c
        account_data == IF hit THEN json_loads(c[CacheKey]) ELSE EnvAccountData(env, acct)
        cfg == Config__init__(account_data).obj
        mm  == check_config(cfg)
    IN  Result(BoolRet(Len(mm) = 0), NoException, cfg, c,
               IF hit THEN {"cache_read"} ELSE {"cache_read", "environ"}, mm, FALSE)

\* account_data of from_secrets
SecretAccountData(secret) == [f \in FieldSet |-> DictGet(secret, EnvKey[f], NoneVal)]

from_secrets_empty_id(c, env, acct, creds, m, resp) ==
    IF SecretIdVar \notin DOMAIN env
    THEN Result("None", NoException, creds, c, {"environ"}, m, FALSE)
    ELSE IF resp.error = "ClientError"
    THEN Result("None", NoException, creds, c, {"environ", "secretsmanager"}, m, TRUE)
    ELSE LET account_data == SecretAccountData(json_loads(resp.SecretString))
             cfg == Config__init__(account_data).obj
             mm  == check_config(cfg)
         IN  Result(BoolRet(Len(mm) = 0), NoException, cfg,
                    CacheSetItem(c, CacheKey, json_dumps(AccountDataKeys, account_data)),
                    {"environ", "secretsmanager", "cache_write"}, mm, TRUE)

from_secrets_cache_valid_only(c, env, acct, creds, m, resp) ==
    IF Falsy(DictGet(env, SecretIdVar, NoneVal))
    THEN Result("None", NoException, creds, c, {"environ"}, m, FALSE)
    ELSE IF resp.error = "ClientError"
    THEN Result("None", NoException, creds, c, {"environ", "secretsmanager"}, m, TRUE)
    ELSE LET account_data == SecretAccountData(json_loads(resp.SecretString))
             cfg == Config__init__(account_data).obj
             mm  == check_config(cfg)
         IN  Result(BoolRet(Len(mm) = 0), NoException, cfg,
                    IF Len(mm) = 0
                    THEN CacheSetItem(c, CacheKey, json_dumps(AccountDataKeys, account_data))
                    ELSE c,
                    {"environ", "secretsmanager", "cache_write"}, mm, TRUE)

from_secrets(c, env, acct, creds, m, resp) ==
    IF Falsy(DictGet(env, SecretIdVar, NoneVal))
    THEN Result("None", NoException, creds, c, {"environ"}, m, FALSE)
    ELSE IF resp.error = "ClientError"
    THEN Result("None", NoException, creds, c, {"environ", "secretsmanager"}, m, TRUE)
    ELSE LET account_data == SecretAccountData(json_loads(resp.SecretString))
             cfg == Config__init__(account_data).obj
             mm  == check_config(cfg)
         IN  Result(BoolRet(Len(mm) = 0), NoException, cfg,
                    CacheSetItem(c, CacheKey, json_dumps(AccountDataKeys, account_data)),
                    {"environ", "secretsmanager", "cache_write"}, mm, TRUE)

AccountNotSetup(acct) ==
    [type |-> "MissingCredentials",
     message |-> <<"The account ", acct, " was not setup in your configuration file.">>]

NoEnvNoFile ==
    [type |-> "MissingCredentials",
     message |-> <<"Neither environment variables nor a config file were found. ",
                   "Please set the correct variables, or use a config file (credentials.yml). ",
                   "See https://confuse.readthedocs.io/en/latest/usage.html#search-paths for search paths.">>]

\* file.exists = FALSE: set_file raises ConfigReadError;
\* acct not in the document: config[acct].get() raises NotFoundError
read_config(c, file, acct, creds, m) ==
    IF ~file.exists
    THEN Result("raise", NoEnvNoFile, creds, c, {"config_file"}, m, FALSE)
    ELSE IF acct \notin DOMAIN file.doc
    THEN Result("raise", AccountNotSetup(acct), creds, c, {"config_file"}, m, FALSE)
    ELSE LET r == Config__init__(file.doc[acct])
         IN  IF r.exc.type # "none"
             THEN Result("raise", r.exc, creds, c, {"config_file"}, m, FALSE)
             ELSE LET mm == check_config(r.obj)
                  IN  IF Len(mm) # 0
                      THEN Result("raise", MissingParameters(mm), r.obj, c, {"config_file"}, mm, FALSE)
                      ELSE Result("True", NoException, r.obj, c, {"config_file"}, mm, FALSE)

-----------------------------------------------------------------------------
(* __init__ and load_credentials *)

\* self.read_credentials
read_credentials == <<"from_env", "from_secrets", "read_config">>

\* `if credentials:` -- None and the empty dict both take the else branch
credentials_supplied_never(arg) == FALSE

credentials_supplied(arg) == ~arg.is_none /\ DOMAIN arg.kwargs # {}

\* one turn of the loop of load_credentials after the reader at position i
\* returned ret: where control goes next
load_credentials_no_return(i, ret) ==
    IF i < Len(read_credentials)
    THEN [pc |-> "load", idx |-> i + 1]
    ELSE [pc |-> "returned", idx |-> i]

load_credentials(i, ret) ==
    IF ret = "True"
    THEN [pc |-> "returned", idx |-> i]
    ELSE IF i < Len(read_credentials)
    THEN [pc |-> "load", idx |-> i + 1]
    ELSE [pc |-> "returned", idx |-> i]

NoResponse == [error |-> "not_called", SecretString |-> <<>>]

NoCredentials == EmptyDict

NoArg == [is_none |-> TRUE, kwargs |-> EmptyDict]

Arg(kwargs) == [is_none |-> FALSE, kwargs |-> kwargs]

\* CredentialProvider(account=acct, credentials=arg), up to the first reader
__init__(acct, arg, env, file) ==
    /\ pc # "load"
    /\ fetchCount < MaxFetches
    /\ account' = acct
    /\ credArg' = arg
    /\ environ' = env
    /\ configFile' = file
    /\ calls' = <<>>
    /\ touched' = {}
    /\ response' = NoResponse
    /\ idx' = 1
    /\ UNCHANGED <<cache, fetchCount>>
    /\ IF credentials_supplied(arg)
       THEN LET r == Config__init__(arg.kwargs)
            IN  IF r.exc.type # "none"
                THEN /\ pc' = "raised"
                     /\ raised' = r.exc
                     /\ credentials' = NoCredentials
                     /\ missing' = <<>>
                ELSE LET mm == check_config(r.obj)
                     IN  /\ credentials' = r.obj
                         /\ missing' = mm
                         /\ IF Len(mm) # 0
                            THEN pc' = "raised" /\ raised' = MissingParameters(mm)
                            ELSE pc' = "returned" /\ raised' = NoException
       ELSE /\ pc' = "load"
            /\ raised' = NoException
            /\ credentials' = NoCredentials
            /\ missing' = <<>>

\* what a reader's outcome does to the instance and to load_credentials
Apply(method, r) ==
    /\ calls' = Append(calls, [method |-> method, ret |-> r.ret])
    /\ touched' = touched \cup r.touched
    /\ credentials' = r.credentials
    /\ cache' = r.cache
    /\ missing' = r.missing
    /\ fetchCount' = IF r.fetched THEN fetchCount + 1 ELSE fetchCount
    /\ IF r.exc.type # "none"
       THEN pc' = "raised" /\ raised' = r.exc /\ idx' = idx
       ELSE LET n == load_credentials(idx, r.ret)
            IN  pc' = n.pc /\ idx' = n.idx /\ raised' = NoException
    /\ UNCHANGED <<environ, configFile, account, credArg>>

FromEnv ==
    /\ pc = "load"
    /\ read_credentials[idx] = "from_env"
    /\ Apply("from_env", from_env(cache, environ, account, credentials, missing))
    /\ UNCHANGED response

FromSecrets(resp) ==
    /\ pc = "load"
    /\ read_credentials[idx] = "from_secrets"
    /\ LET r == from_secrets(cache, environ, account, credentials, missing, resp)
       IN  /\ Apply("from_secrets", r)
           /\ response' = IF r.fetched THEN resp ELSE response

ReadConfig ==
    /\ pc = "load"
    /\ read_credentials[idx] = "read_config"
    /\ Apply("read_config", read_config(cache, configFile, account, credentials, missing))
    /\ UNCHANGED response

-----------------------------------------------------------------------------
(* What a construction can be given and can find around it *)

Accounts == {"default", "myaccount"}

EnvFrom(d) ==
    [n \in {EnvKey[f] : f \in DOMAIN d} |-> d[CHOOSE f \in DOMAIN d : EnvKey[f] = n]]

ScopedEnvFrom(d, acct) ==
    [n \in {ScopedName(EnvKey[f], acct) : f \in DOMAIN d} |->
        d[CHOOSE f \in DOMAIN d : ScopedName(EnvKey[f], acct) = n]]

UnscopedEnvs ==
    {EmptyDict,
     EnvFrom(Full(FieldSet, "u")),
     EnvFrom(Without(Full(FieldSet, "u"), "aws_secret_key")),
     EnvFrom(With(Full(FieldSet, "u"), "lwa_app_id", ""))}

ScopedEnvs ==
    {EmptyDict,
     ScopedEnvFrom([lwa_app_id |-> "s"], "myaccount"),
     ScopedEnvFrom([aws_secret_key |-> "s"], "myaccount"),
     ScopedEnvFrom([lwa_app_id |-> ""], "myaccount")}

SecretIdEnvs == {EmptyDict, SecretIdVar :> "", SecretIdVar :> "id"}

Envs == {Merge(Merge(u, s), i) : u \in UnscopedEnvs, s \in ScopedEnvs, i \in SecretIdEnvs}

NoFile == [exists |-> FALSE, doc |-> [a \in {} |-> EmptyDict]]

File(doc) == [exists |-> TRUE, doc |-> doc]

Sections ==
    {Full(FieldSet, "f"),
     Without(Full(FieldSet, "f"), "aws_secret_key"),
     Without(Full(FieldSet, "f"), "refresh_token"),
     Without(Full(FieldSet, "f"), "role_arn"),
     With(Full(FieldSet, "f"), "lwa_app_id", ""),
     With(With(Full(FieldSet, "f"), "aws_access_key", NoneVal), "aws_secret_key", ""),
     With(Full(FieldSet, "f"), "refresh_token", NoneVal),
     With(Full(FieldSet, "f"), "region", "f")}

Files ==
    {NoFile, File([a \in {} |-> EmptyDict]), File("myaccount" :> Full(FieldSet, "f"))}
    \cup {File("default" :> s) : s \in Sections}

Worlds ==
    (Envs \X {NoFile, File("default" :> Full(FieldSet, "f"))})
    \cup (SecretIdEnvs \X Files)

ExplicitWorlds ==
    {<<EmptyDict, NoFile>>,
     <<Merge(EnvFrom(Full(FieldSet, "u")), SecretIdVar :> "id"),
       File([a \in Accounts |-> Full(FieldSet, "f")])>>}

ExplicitKwargs ==
    {Full(FieldSet, "x"),
     With(Full(FieldSet, "x"), "use_instance_profile", "x"),
     With(Full(FieldSet, "x"), "region", "x"),
     With(With(Full(FieldSet, "x"), "lwa_app_id", ""), "aws_secret_key", NoneVal)}
    \cup {Without(Full(FieldSet, "x"), f) : f \in FieldSet}
    \cup {With(Full(FieldSet, "x"), f, h) : f \in FieldSet, h \in {"", NoneVal}}

Inputs ==
    {<<Arg(k), w[1], w[2]>> : k \in ExplicitKwargs, w \in ExplicitWorlds}
    \cup {<<Arg(EmptyDict), w[1], w[2]>> : w \in ExplicitWorlds}
    \cup {<<NoArg, w[1], w[2]>> : w \in Worlds}

SecretKeys(fields) == [i \in 1..Len(fields) |-> EnvKey[fields[i]]]

SecretText(fields, d) == json_dumps(SecretKeys(fields), EnvFrom(d))

Responses ==
    {[error |-> "ClientError", SecretString |-> <<>>],
     [error |-> "none", SecretString |-> SecretText(AccountDataKeys, Full(FieldSet, "k"))],
     [error |-> "none",
      SecretString |-> SecretText(SelectSeq(AccountDataKeys, LAMBDA f : f # "aws_secret_key"),
                                  Full(FieldSet, "k"))],
     [error |-> "none",
      SecretString |-> SecretText(SelectSeq(AccountDataKeys, LAMBDA f : f # "role_arn"),
                                  Full(FieldSet, "k"))],
     [error |-> "none",
      SecretString |-> SecretText(AccountDataKeys, With(Full(FieldSet, "k"), "lwa_app_id", ""))],
     [error |-> "none",
      SecretString |-> SecretText(AccountDataKeys, With(Full(FieldSet, "k"), "refresh_token", NoneVal))]}

-----------------------------------------------------------------------------
(* The process: any number of constructions, one after the other *)

Init ==
    /\ cache = NoCache
    /\ fetchCount = 0
    /\ environ = EmptyDict
    /\ configFile = NoFile
    /\ account = "default"
    /\ credArg = NoArg
    /\ credentials = NoCredentials
    /\ pc = "idle"
    /\ idx = 1
    /\ calls = <<>>
    /\ touched = {}
    /\ response = NoResponse
    /\ missing = <<>>
    /\ raised = NoException

Next ==
    \/ \E acct \in Accounts, i \in Inputs : __init__(acct, i[1], i[2], i[3])
    \/ FromEnv
    \/ \E resp \in Responses : FromSecrets(resp)
    \/ ReadConfig

Spec == Init /\ [][Next]_vars

-----------------------------------------------------------------------------
(* Config on its own: build a record from keyword arguments and check it *)

ConfigValues == {NoneVal, "", "x"}

ConfigKwargs ==
    [FieldSet -> ConfigValues]
    \cup [ConfigPositional -> ConfigValues]
    \cup {With(k, "use_instance_profile", v) : k \in [FieldSet -> {"", "x"}], v \in ConfigValues}

\* Config(**kwargs).check_config()
CheckConfig(kwargs) ==
    /\ credArg' = Arg(kwargs)
    /\ credentials' = Config__init__(kwargs).obj
    /\ missing' = check_config(Config__init__(kwargs).obj)
    /\ pc' = "checked"
    /\ UNCHANGED <<cache, fetchCount, environ, configFile, account, idx, calls,
                   touched, response, raised>>

NextConfig == \E kwargs \in ConfigKwargs : CheckConfig(kwargs)

SpecConfig == Init /\ [][NextConfig]_vars

-----------------------------------------------------------------------------
(* Vocabulary of the properties *)

RequiredFields == {"lwa_app_id", "lwa_client_secret", "aws_access_key", "aws_secret_key"}

SourceOrder == <<"from_env", "from_secrets", "read_config">>

ArgGiven == ~credArg.is_none /\ DOMAIN credArg.kwargs # {}

Finished == pc \in {"returned", "raised"}

Populated(d, f) == f \in DOMAIN d /\ d[f] \notin {NoneVal, ""}

ValidRecord(cfg) == DOMAIN cfg = FieldSet /\ \A f \in RequiredFields : Populated(cfg, f)

Elements(seq) == {seq[i] : i \in 1..Len(seq)}

SecretIdSet(env) == SecretIdVar \in DOMAIN env /\ env[SecretIdVar] # ""

\* the field values a fetched SecretString carries
PayloadValues(resp) ==
    LET secret == json_loads(resp.SecretString)
    IN  [f \in FieldSet |-> IF EnvKey[f] \in DOMAIN secret THEN secret[EnvKey[f]] ELSE NoneVal]

CachedValues(c) == json_loads(c[CacheKey])

CacheComplete(c) == CacheKey \in DOMAIN c /\ ValidRecord(CachedValues(c))

\* the step just taken was the call of the reader named m
Called(m) ==
    /\ pc = "load"
    /\ Len(calls') = Len(calls) + 1
    /\ calls'[Len(calls')].method = m

LastRet == calls[Len(calls)].ret

-----------------------------------------------------------------------------
(* C1: without explicit credentials the readers run in the order from_env,  *)
(* from_secrets, read_config; a reader runs only if every reader before it  *)
(* returned a falsy value, so the first reader that returns True ends the   *)
(* construction with a record that has no required field missing, and the   *)
(* secrets manager and the config file are consulted only by their readers. *)
C1_SourceOrder ==
    (~ArgGiven /\ pc # "idle") =>
        /\ Len(calls) <= Len(SourceOrder)
        /\ \A i \in 1..Len(calls) : calls[i].method = SourceOrder[i]
        /\ \A i \in 1..(Len(calls) - 1) : calls[i].ret \in {"False", "None"}
        /\ pc = "load" => /\ idx = Len(calls) + 1
                          /\ Len(calls) > 0 => LastRet \in {"False", "None"}
        /\ pc = "returned" => /\ Len(calls) >= 1
                              /\ LastRet = "True"
                              /\ ValidRecord(credentials)
        /\ ("secretsmanager" \in touched \/ "cache_write" \in touched) => Len(calls) >= 2
        /\ response # NoResponse => Len(calls) >= 2
        /\ "config_file" \in touched => Len(calls) = 3

\* from_env succeeded although a secret id and a config file were at hand
C1_Witness ==
    /\ ~ArgGiven
    /\ pc = "returned"
    /\ Len(calls) = 1
    /\ "environ" \in touched
    /\ SecretIdSet(environ)
    /\ configFile.exists
    /\ account \in DOMAIN configFile.doc

(* C2: a construction that returns holds a record whose four required       *)
(* fields are populated, and a construction that does not return raises     *)
(* MissingCredentials.                                                      *)
C2_ValidOrMissingCredentials ==
    /\ pc = "returned" => ValidRecord(credentials)
    /\ pc = "raised" => raised.type = "MissingCredentials"

(* C3: a construction given explicit credentials ends in __init__ itself:   *)
(* no reader is called, the cache and the fetch count stay as they were,    *)
(* nothing of the environment, the secrets manager or the config file is    *)
(* consulted, and a record that is held comes from the mapping alone.       *)
C3_ExplicitFrame ==
    [][(pc # "load" /\ ~credArg'.is_none /\ DOMAIN credArg'.kwargs # {}) =>
          /\ pc' \in {"returned", "raised"}
          /\ calls' = <<>>
          /\ touched' = {}
          /\ response' = NoResponse
          /\ cache' = cache
          /\ fetchCount' = fetchCount
          /\ pc' = "returned" =>
                \A f \in FieldSet :
                    credentials'[f] = IF f \in DOMAIN credArg'.kwargs
                                      THEN credArg'.kwargs[f] ELSE NoneVal]_vars

\* explicit credentials accepted while every source had credentials to offer
C3_Witness ==
    /\ ArgGiven
    /\ pc = "returned"
    /\ credentials = Full(FieldSet, "x")
    /\ CacheKey \in DOMAIN cache
    /\ SecretIdSet(environ)
    /\ "LWA_APP_ID" \in DOMAIN environ
    /\ configFile.exists

(* C4: explicit credentials (of known keys) in which a required field is    *)
(* absent or empty make the construction raise MissingCredentials naming    *)
(* every such field, without any reader being called.                       *)
C4_ExplicitMissingFields ==
    (/\ ArgGiven
     /\ Finished
     /\ DOMAIN credArg.kwargs \subseteq ConfigParams
     /\ \E f \in RequiredFields : ~Populated(credArg.kwargs, f)) =>
        /\ pc = "raised"
        /\ raised.type = "MissingCredentials"
        /\ \A f \in RequiredFields :
              ~Populated(credArg.kwargs, f) => f \in Elements(raised.message)
        /\ calls = <<>>

(* C5: check_config returns exactly the required fields whose value is      *)
(* empty or None, each once: never a populated field, never refresh_token,  *)
(* role_arn or use_instance_profile.                                        *)
C5_CheckConfigExact ==
    pc = "checked" =>
        /\ Elements(missing) = {f \in RequiredFields : ~Populated(credArg.kwargs, f)}
        /\ Cardinality(Elements(missing)) = Len(missing)

\* two required fields empty next to empty optional ones
C5_Witness ==
    /\ pc = "checked"
    /\ missing = <<"lwa_app_id", "aws_secret_key">>
    /\ credArg.kwargs["refresh_token"] = NoneVal
    /\ "role_arn" \notin DOMAIN credArg.kwargs

(* C6: with no cached payload and no credential variables in the           *)
(* environment from_env fails, and with a secret id set from_secrets then   *)
(* fetches once; when that payload is complete the construction returns     *)
(* holding it and the payload is cached.  From then on every construction   *)
(* that goes to the readers returns from from_env with the cached values,   *)
(* and the fetch count and the cache never change again.                    *)
C6_CachedPayloadReuse ==
    [][/\ (/\ Called("from_env")
           /\ CacheKey \notin DOMAIN cache
           /\ \A f \in FieldSet :
                 /\ EnvKey[f] \notin DOMAIN environ
                 /\ (EnvKey[f] \o "_" \o account) \notin DOMAIN environ) =>
              (pc' = "load" /\ cache' = cache /\ fetchCount' = fetchCount)
       /\ (Called("from_secrets") /\ SecretIdSet(environ)) =>
              /\ fetchCount' = fetchCount + 1
              /\ (response'.error = "none" /\ ValidRecord(PayloadValues(response'))) =>
                    /\ pc' = "returned"
                    /\ credentials' = PayloadValues(response')
                    /\ CacheKey \in DOMAIN cache'
                    /\ CachedValues(cache') = PayloadValues(response')
       /\ CacheComplete(cache) =>
              /\ fetchCount' = fetchCount
              /\ cache' = cache
              /\ pc = "load" =>
                    /\ pc' = "returned"
                    /\ calls' = <<[method |-> "from_env", ret |-> "True"]>>
                    /\ touched' = {"cache_read"}
                    /\ credentials' = CachedValues(cache)]_vars

\* a later construction, for the other account, served from the cache
C6_Witness ==
    /\ ~ArgGiven
    /\ pc = "returned"
    /\ fetchCount = 1
    /\ response = NoResponse
    /\ touched = {"cache_read"}
    /\ account = "myaccount"
    /\ SecretIdSet(environ)
    /\ credentials = Full(FieldSet, "k")

(* C7: from_secrets with the secret id unset or empty returns None without  *)
(* calling the secrets manager, and with a ClientError from the secrets     *)
(* manager returns None too; both leave the cache unchanged and the         *)
(* construction goes on to read_config.                                     *)
C7_SecretsNeverAbort ==
    [][/\ (Called("from_secrets") /\ ~SecretIdSet(environ)) =>
              /\ fetchCount' = fetchCount
              /\ "secretsmanager" \notin touched'
              /\ response' = NoResponse
              /\ cache' = cache
              /\ calls'[Len(calls')].ret = "None"
              /\ pc' = "load"
       /\ (Called("from_secrets") /\ SecretIdSet(environ) /\ response'.error = "ClientError") =>
              /\ fetchCount' = fetchCount + 1
              /\ cache' = cache
              /\ calls'[Len(calls')].ret = "None"
              /\ pc' = "load"
       /\ (/\ pc = "load"
           /\ Len(calls) > 0
           /\ LastRet = "None"
           /\ calls[Len(calls)].method = "from_secrets"
           /\ calls' # calls) =>
              calls'[Len(calls')].method = "read_config"]_vars

\* after a ClientError the config file supplied the credentials
C7_Witness ==
    /\ pc = "returned"
    /\ Len(calls) = 3
    /\ response.error = "ClientError"
    /\ calls[2] = [method |-> "from_secrets", ret |-> "None"]
    /\ calls[3] = [method |-> "read_config", ret |-> "True"]
    /\ credentials = Full(FieldSet, "f")

(* C8: every failure of read_config raises MissingCredentials: naming the   *)
(* account when the file has no section for it, saying that neither         *)
(* environment variables nor a config file were found when there is no      *)
(* file, and naming the missing fields when the section lacks required      *)
(* fields.                                                                  *)
C8_ReadConfigFailures ==
    (Finished /\ Len(calls) = 3) =>
        /\ pc = "raised" => raised.type = "MissingCredentials"
        /\ ~configFile.exists =>
              /\ pc = "raised"
              /\ "Neither environment variables nor a config file were found. "
                    \in Elements(raised.message)
        /\ (configFile.exists /\ account \notin DOMAIN configFile.doc) =>
              /\ pc = "raised"
              /\ account \in Elements(raised.message)
              /\ "Neither environment variables nor a config file were found. "
                    \notin Elements(raised.message)
        /\ (/\ configFile.exists
            /\ account \in DOMAIN configFile.doc
            /\ \E f \in RequiredFields : ~Populated(configFile.doc[account], f)) =>
              /\ pc = "raised"
              /\ \A f \in RequiredFields :
                    ~Populated(configFile.doc[account], f) => f \in Elements(raised.message)

(* C9 as stated: a construction without explicit credentials, in an         *)
(* environment that holds every required field for the account, resolves a  *)
(* field whose scoped and unscoped variables are both set to the scoped     *)
(* value.                                                                   *)
C9_ScopedAlwaysResolved ==
    (/\ ~ArgGiven
     /\ pc = "returned"
     /\ \A f \in RequiredFields :
           \/ Populated(environ, EnvKey[f] \o "_" \o account)
           \/ /\ (EnvKey[f] \o "_" \o account) \notin DOMAIN environ
              /\ Populated(environ, EnvKey[f])) =>
        \A f \in FieldSet :
            (EnvKey[f] \in DOMAIN environ /\ (EnvKey[f] \o "_" \o account) \in DOMAIN environ) =>
                credentials[f] = environ[EnvKey[f] \o "_" \o account]

(* C9 amended: when from_env finds no cached payload it reads the           *)
(* environment, and each field of the record it builds is the scoped        *)
(* variable's value if that variable is set, else the unscoped variable's   *)
(* value if set, else None.                                                 *)
C9_ScopedOverride ==
    (Len(calls) = 1 /\ "environ" \in touched) =>
        \A f \in FieldSet :
            credentials[f] =
                IF (EnvKey[f] \o "_" \o account) \in DOMAIN environ
                THEN environ[EnvKey[f] \o "_" \o account]
                ELSE IF EnvKey[f] \in DOMAIN environ
                THEN environ[EnvKey[f]]
                ELSE NoneVal

\* both variables set with different values, resolved to the scoped one
C9_Witness ==
    /\ pc = "returned"
    /\ Len(calls) = 1
    /\ "environ" \in touched
    /\ account = "myaccount"
    /\ "LWA_APP_ID" \in DOMAIN environ
    /\ "LWA_APP_ID_myaccount" \in DOMAIN environ
    /\ environ["LWA_APP_ID"] = "u"
    /\ credentials["lwa_app_id"] = "s"
    /\ credentials["aws_secret_key"] = "u"

(* C10: the cache changes only in from_secrets, on a fetch that returned    *)
(* without ClientError; such a fetch stores the payload's values whether    *)
(* or not they validate; and an entry once set is never removed.            *)
C10_CacheWrites ==
    [][/\ cache' # cache =>
              /\ Called("from_secrets")
              /\ fetchCount' = fetchCount + 1
              /\ response'.error = "none"
       /\ (Called("from_secrets") /\ fetchCount' = fetchCount + 1 /\ response'.error = "none") =>
              /\ DOMAIN cache' = {CacheKey}
              /\ CachedValues(cache') = PayloadValues(response')
       /\ CacheKey \in DOMAIN cache => CacheKey \in DOMAIN cache']_vars

\* an incomplete payload stayed cached and a construction for the other
\* account, with explicit credentials, left it there
C10_Witness ==
    /\ CacheKey \in DOMAIN cache
    /\ ~ValidRecord(CachedValues(cache))
    /\ ArgGiven
    /\ Finished
    /\ account = "myaccount"

====
